---- MODULE Spec2Model ----
(***************************************************************************)
(* The page controllers of ComplyFormAI (OpportunitiesPage,                *)
(* ComplianceRulesPage, OrganizationManagementPage, HomePage) as one state *)
(* machine: React state per page, the handler invocations in flight with   *)
(* the API calls they wait for, the pending setTimeout callbacks, and the  *)
(* REST backend the calls go to.                                           *)
(*                                                                         *)
(* One step of the model is one JavaScript task: a user event handler up   *)
(* to its first await, or the arrival of a response together with every    *)
(* continuation it makes runnable (microtasks run to completion before     *)
(* the next task).                                                         *)
(***************************************************************************)
EXTENDS Integers, Sequences, FiniteSets, TLC

\* ------------------------------------------------------------------ bounds
\* how many user events (clicks, input changes, submits) a behaviour may hold
MaxOps == 4
\* how far the clock advances in one step, in milliseconds
TickMs == 1500

\* --------------------------------------------------------------- constants
SuccessDelayMs == 3000

NULL == "null"
NoData == {}

JurisdictionMD == [id |-> "jur-md", code |-> "MD"]
JurisdictionDC == [id |-> "jur-dc", code |-> "DC"]

\* jurisdictionsApi.getAll(): reference data, the same on every read
ServerJurisdictions == {JurisdictionMD, JurisdictionDC}

\* the detail an error response may carry: absent (a network error), empty, or a message
ErrorDetails == {NULL, "", "Rule name already exists"}

\* an operator that always yields its second operand
Second(a, b) == b

\* a || b of JavaScript, on strings with null
OrElse(a, b) == IF a = NULL \/ a = "" THEN b ELSE a

\* page:   the route that is mounted
\* ui:     the React state of the mounted page component (its useState cells)
\* server: the backend's tables
\* tasks:  the handler invocations that are waiting for a response, oldest first
\* timers: the pending setTimeout callbacks, oldest first
\* ops:    how many user events have happened (the mount is the first)
\* ev:     what the last step did (the handler segment that ran, and its input)
VARIABLES page, ui, server, tasks, timers, ops, ev

vars == <<page, ui, server, tasks, timers, ops, ev>>

\* --------------------------------------------------- requests and promises
\* A handler invocation waiting on the API client. stage "call": it awaits its
\* own request; stage "load": it awaits the Promise.all of loadData (the one
\* request of loadOrganizations, of loadBids). st: the awaited request (in a
\* load, the list request) is sent, or the backend has answered it (ok) and data
\* is the payload on its way back. j: the jurisdictions request of a loadData,
\* sent or ok (none where there is none). n numbers the user event that issued
\* the request.
CallTask(kind, req, n) ==
    [kind |-> kind, n |-> n, stage |-> "call", req |-> req, st |-> "sent",
     data |-> NoData, j |-> "none"]

\* loadData() is called: Promise.all sends the list request and the
\* jurisdictions request together
StartLoad(t, withJurisdictions) ==
    [t EXCEPT !.stage = "load", !.st = "sent", !.data = NoData,
              !.j = IF withJurisdictions THEN "sent" ELSE "none"]

Request(api, args) == [api |-> api, args |-> args]

RemoveAt(s, i) == [k \in 1..(Len(s) - 1) |-> IF k < i THEN s[k] ELSE s[k + 1]]

ReplaceAt(s, i, x) == [s EXCEPT ![i] = x]

\* ev names the handler segment that ran in the last step, when it is one that
\* ends an await: at is try, catch, end (after await loadData()) or cancel; load
\* tells whether a loadData settled in the step, and how; val is the segment's
\* input (the error detail, the payload). Every other step leaves Quiet.
Event(h, at, load, val) == [h |-> h, at |-> at, load |-> load, val |-> val]

Quiet == Event("", "", "none", <<>>)

\* setTimeout(cb, ms): the callback of every timer of these pages is setSuccess(null)
NewTimer(ms) == [delay |-> ms, left |-> ms]

\* ------------------------------------------------------- ComplianceRulesPage
InitialFormData ==
    [jurisdiction_id |-> "", rule_name |-> "", rule_type |-> "MBE",
     rule_definition |-> [threshold |-> 0, description |-> ""],
     severity |-> "ERROR"]

InitialRulesPage ==
    [rules |-> {}, jurisdictions |-> {}, loading |-> TRUE, error |-> NULL,
     success |-> NULL, showCreateForm |-> FALSE, editingRule |-> {},
     selectedJurisdiction |-> "", formData |-> InitialFormData]

\* what the user may type into the rule form
FormInputs ==
    {[jurisdiction_id |-> "jur-dc", rule_name |-> "Local hire", rule_type |-> "VSBE",
      rule_definition |-> [threshold |-> 25, description |-> "25% local"],
      severity |-> "WARNING"]}

\* a rule the backend may hold before the page is opened
SeedRule ==
    [id |-> 1, jurisdiction_id |-> "jur-md", rule_name |-> "MBE goal", rule_type |-> "MBE",
     rule_definition |-> [threshold |-> 29, description |-> ""], severity |-> "ERROR"]

\* ---- handler segments: the setState calls of each handler, as functions of
\* ---- the page state p

\* a loadData that merges what it read into what it shows
Rules_loadData_try_merging(p, rulesData, jurisdictionsData) ==
    [p EXCEPT !.rules = @ \cup rulesData, !.jurisdictions = jurisdictionsData,
              !.loading = FALSE]

\* loadData, the try block after Promise.all resolved, and finally
Rules_loadData_try(p, rulesData, jurisdictionsData) ==
    [p EXCEPT !.rules = rulesData, !.jurisdictions = jurisdictionsData, !.loading = FALSE]

\* loadData, the catch block, and finally
Rules_loadData_catch(p) ==
    [p EXCEPT !.error = "Failed to load compliance rules", !.loading = FALSE]

\* handleFilterByJurisdiction up to loadData() or to the await
Rules_handleFilterByJurisdiction_start(p, jurisdictionId) ==
    IF jurisdictionId = ""
    THEN [p EXCEPT !.selectedJurisdiction = jurisdictionId]
    ELSE [p EXCEPT !.selectedJurisdiction = jurisdictionId, !.loading = TRUE]

Rules_handleFilterByJurisdiction_try(p, data) ==
    [p EXCEPT !.rules = data, !.loading = FALSE]

\* a handleFilterByJurisdiction without its finally
Rules_handleFilterByJurisdiction_catch_busy(p) ==
    [p EXCEPT !.error = "Failed to filter rules"]

Rules_handleFilterByJurisdiction_catch(p) ==
    [p EXCEPT !.error = "Failed to filter rules", !.loading = FALSE]

resetForm(p) ==
    [p EXCEPT !.formData = InitialFormData, !.editingRule = {}]

\* handleCreateRule before the await of create
Rules_handleCreateRule_start(p) ==
    [p EXCEPT !.loading = TRUE, !.error = NULL, !.success = NULL]

\* a handleCreateRule that also adds the rule it sent to the list it shows
Rules_handleCreateRule_try_optimistic(p) ==
    [p EXCEPT !.success = "Compliance rule created successfully!",
              !.showCreateForm = FALSE, !.formData = InitialFormData, !.editingRule = {},
              !.rules = @ \cup {[id |-> 0, jurisdiction_id |-> p.formData.jurisdiction_id,
                                 rule_name |-> p.formData.rule_name,
                                 rule_type |-> p.formData.rule_type,
                                 rule_definition |-> p.formData.rule_definition,
                                 severity |-> p.formData.severity]}]

\* handleCreateRule between the await of create and loadData()
Rules_handleCreateRule_try(p) ==
    resetForm([p EXCEPT !.success = "Compliance rule created successfully!",
                        !.showCreateForm = FALSE])

\* a handleCreateRule that empties the form when the create fails
Rules_handleCreateRule_catch_resetting(p, detail) ==
    resetForm([p EXCEPT !.error = OrElse(detail, "Failed to create rule"), !.loading = FALSE])

Rules_handleCreateRule_catch(p, detail) ==
    [p EXCEPT !.error = OrElse(detail, "Failed to create rule"), !.loading = FALSE]

\* handleCreateRule and handleUpdateRule after the await of loadData: finally
Rules_handleSubmit_finally(p) ==
    [p EXCEPT !.loading = FALSE]

Rules_handleUpdateRule_start(p) ==
    [p EXCEPT !.loading = TRUE, !.error = NULL, !.success = NULL]

\* an update that sends the whole form
Rules_updatePayload_whole(formData) == formData

\* the partial rule handleUpdateRule sends
Rules_updatePayload(formData) ==
    [rule_name |-> formData.rule_name, rule_type |-> formData.rule_type,
     rule_definition |-> formData.rule_definition, severity |-> formData.severity]

\* handleUpdateRule up to its await: the early return when no rule is being
\* edited, otherwise the setState calls and the call of update
Rules_handleUpdateRule_submit(p) ==
    IF p.editingRule = {} THEN [state |-> p, calls |-> <<>>]
    ELSE LET rule == CHOOSE r \in p.editingRule : TRUE
         IN  [state |-> Rules_handleUpdateRule_start(p),
              calls |-> <<Request("complianceRulesApi.update",
                                  <<rule.id, Rules_updatePayload(p.formData)>>)>>]

Rules_handleUpdateRule_try(p) ==
    resetForm([p EXCEPT !.success = "Compliance rule updated successfully!",
                        !.editingRule = {}])

Rules_handleUpdateRule_catch(p, detail) ==
    [p EXCEPT !.error = OrElse(detail, "Failed to update rule"), !.loading = FALSE]

\* a handleDeleteRule that clears the banners before it asks
Rules_handleDeleteRule_start_eager(p, confirmed) ==
    [p EXCEPT !.error = NULL, !.success = NULL]

\* handleDeleteRule up to the await of delete; confirmed is what window.confirm
\* returned
Rules_handleDeleteRule_start(p, confirmed) ==
    IF ~confirmed THEN p ELSE [p EXCEPT !.error = NULL, !.success = NULL]

Rules_handleDeleteRule_try(p) ==
    [p EXCEPT !.success = "Compliance rule deleted successfully!"]

Rules_handleDeleteRule_catch(p, detail) ==
    [p EXCEPT !.error = OrElse(detail, "Failed to delete rule")]

\* a handleEditClick that also hides the success banner
Rules_handleEditClick_hiding(p, rule) ==
    [p EXCEPT !.editingRule = {rule},
              !.formData = [jurisdiction_id |-> rule.jurisdiction_id,
                            rule_name |-> rule.rule_name,
                            rule_type |-> rule.rule_type,
                            rule_definition |-> rule.rule_definition,
                            severity |-> rule.severity],
              !.showCreateForm = FALSE, !.success = NULL]

\* a handleEditClick that leaves showCreateForm as it is
Rules_handleEditClick_keeping(p, rule) ==
    [p EXCEPT !.editingRule = {rule},
              !.formData = [jurisdiction_id |-> rule.jurisdiction_id,
                            rule_name |-> rule.rule_name,
                            rule_type |-> rule.rule_type,
                            rule_definition |-> rule.rule_definition,
                            severity |-> rule.severity]]

Rules_handleEditClick(p, rule) ==
    [p EXCEPT !.editingRule = {rule},
              !.formData = [jurisdiction_id |-> rule.jurisdiction_id,
                            rule_name |-> rule.rule_name,
                            rule_type |-> rule.rule_type,
                            rule_definition |-> rule.rule_definition,
                            severity |-> rule.severity],
              !.showCreateForm = FALSE]

\* the onClick of the Create Rule button
Rules_createButtonClick(p) ==
    resetForm([p EXCEPT !.showCreateForm = ~p.showCreateForm, !.editingRule = {}])

\* the onClick of the form's Cancel button
Rules_cancelButtonClick(p) ==
    resetForm([p EXCEPT !.showCreateForm = FALSE, !.editingRule = {}])

\* the early return of the render: only the spinner is shown
Rules_spinnerOnly(p) == p.loading /\ p.rules = {}

\* the form is rendered
Rules_formShown(p) == p.showCreateForm \/ p.editingRule # {}

\* the required fields that block a submit (a disabled select is not validated)
Rules_formValid(p) ==
    /\ p.formData.rule_name # ""
    /\ p.editingRule # {} \/ p.formData.jurisdiction_id # ""

\* --------------------------------------------------------- OpportunitiesPage
InitialFilters ==
    [jurisdiction |-> "", naics |-> "", min_value |-> <<>>, max_value |-> <<>>,
     is_active |-> TRUE, days_until_due |-> <<>>]

\* opportunities: the list as the API returned it; req is the number of the
\* request that returned it (0: the initial empty array)
InitialOppsPage ==
    [opportunities |-> [req |-> 0, items |-> {}], jurisdictions |-> {},
     loading |-> TRUE, error |-> NULL, filters |-> InitialFilters]

\* ---- JavaScript numbers, as far as the filters need them: a decimal m * 10^e
\* ---- with m not a multiple of 10, NaN, and undefined
Undefined == [t |-> "undefined", m |-> 0, e |-> 0]
NaN == [t |-> "NaN", m |-> 0, e |-> 0]

RECURSIVE Normal(_, _)
Normal(m, e) ==
    IF m = 0 THEN [t |-> "number", m |-> 0, e |-> 0]
    ELSE IF m % 10 = 0 THEN Normal(m \div 10, e + 1)
    ELSE [t |-> "number", m |-> m, e |-> e]

Digits == {"0", "1", "2", "3", "4", "5", "6", "7", "8", "9"}

DigitValue(c) ==
    CASE c = "0" -> 0 [] c = "1" -> 1 [] c = "2" -> 2 [] c = "3" -> 3 [] c = "4" -> 4
      [] c = "5" -> 5 [] c = "6" -> 6 [] c = "7" -> 7 [] c = "8" -> 8 [] c = "9" -> 9

\* the index after the longest run of digits of s that starts at i
RECURSIVE DigitsEnd(_, _)
DigitsEnd(s, i) ==
    IF i <= Len(s) /\ s[i] \in Digits THEN DigitsEnd(s, i + 1) ELSE i

\* the value of the digits s[i..j-1], continuing the value acc
RECURSIVE DigitsValue(_, _, _, _)
DigitsValue(s, i, j, acc) ==
    IF i >= j THEN acc ELSE DigitsValue(s, i + 1, j, 10 * acc + DigitValue(s[i]))

\* where a sign at i ends, and its factor
SignEnd(s, i) == IF i <= Len(s) /\ s[i] \in {"+", "-"} THEN i + 1 ELSE i
SignOf(s, i) == IF i <= Len(s) /\ s[i] = "-" THEN -1 ELSE 1

\* parseInt(text): an optional sign and the longest run of digits; NaN without one
parseInt(s) ==
    LET a == SignEnd(s, 1)
        b == DigitsEnd(s, a)
    IN  IF b = a THEN NaN ELSE Normal(SignOf(s, 1) * DigitsValue(s, a, b, 0), 0)

\* parseFloat(text): the longest prefix that is a decimal literal, that is
\* sign, digits, fraction, exponent; NaN without a digit
parseFloatEnd(s) ==
    LET a == SignEnd(s, 1)
        b == DigitsEnd(s, a)
        c == IF b <= Len(s) /\ s[b] = "." THEN DigitsEnd(s, b + 1) ELSE b
        x == IF c <= Len(s) /\ s[c] \in {"e", "E"} THEN SignEnd(s, c + 1) ELSE c
        d == IF x > c /\ DigitsEnd(s, x) > x THEN DigitsEnd(s, x) ELSE c
    IN  [a |-> a, b |-> b, c |-> c, x |-> x, d |-> d]

parseFloat(s) ==
    LET q == parseFloatEnd(s)
        fracFrom == IF q.c > q.b THEN q.b + 1 ELSE q.b
        nfrac == q.c - fracFrom
        mant == DigitsValue(s, fracFrom, q.c, DigitsValue(s, q.a, q.b, 0))
        ex == IF q.d > q.c THEN SignOf(s, q.c + 1) * DigitsValue(s, q.x, q.d, 0) ELSE 0
    IN  IF q.b = q.a /\ nfrac = 0 THEN NaN
        ELSE Normal(SignOf(s, 1) * mant, ex - nfrac)

\* a handleSearch that passes the text of the select and text inputs as it is
Opps_searchParams_asTyped(filters) ==
    [jurisdiction |-> filters.jurisdiction,
     naics |-> filters.naics,
     min_value |-> IF filters.min_value # <<>> THEN parseFloat(filters.min_value) ELSE Undefined,
     max_value |-> IF filters.max_value # <<>> THEN parseFloat(filters.max_value) ELSE Undefined,
     is_active |-> filters.is_active,
     days_until_due |-> IF filters.days_until_due # <<>>
                        THEN parseInt(filters.days_until_due) ELSE Undefined]

\* the argument of opportunitiesApi.simpleSearch that handleSearch builds
Opps_searchParams(filters) ==
    [jurisdiction |-> IF filters.jurisdiction # "" THEN filters.jurisdiction ELSE "undefined",
     naics |-> IF filters.naics # "" THEN filters.naics ELSE "undefined",
     min_value |-> IF filters.min_value # <<>> THEN parseFloat(filters.min_value) ELSE Undefined,
     max_value |-> IF filters.max_value # <<>> THEN parseFloat(filters.max_value) ELSE Undefined,
     is_active |-> filters.is_active,
     days_until_due |-> IF filters.days_until_due # <<>>
                        THEN parseInt(filters.days_until_due) ELSE Undefined]

Opps_loadData_try(p, oppsData, jurisdictionsData) ==
    [p EXCEPT !.opportunities = oppsData, !.jurisdictions = jurisdictionsData,
              !.loading = FALSE]

\* a loadData that empties the list when it fails
Opps_loadData_catch_emptying(p) ==
    [p EXCEPT !.opportunities = [req |-> 0, items |-> {}],
              !.error = "Failed to load opportunities", !.loading = FALSE]

Opps_loadData_catch(p) ==
    [p EXCEPT !.error = "Failed to load opportunities", !.loading = FALSE]

Opps_handleSearch_start(p) ==
    [p EXCEPT !.loading = TRUE, !.error = NULL]

\* a handleSearch that adds the result to the list it shows
Opps_handleSearch_try_appending(p, data) ==
    [p EXCEPT !.opportunities = [req |-> data.req, items |-> @.items \cup data.items],
              !.loading = FALSE]

Opps_handleSearch_try(p, data) ==
    [p EXCEPT !.opportunities = data, !.loading = FALSE]

Opps_handleSearch_catch(p) ==
    [p EXCEPT !.error = "Search failed", !.loading = FALSE]

\* a handleClearFilters that leaves the checkbox as it is
Opps_handleClearFilters_start_texts(p) ==
    [p EXCEPT !.filters = [InitialFilters EXCEPT !.is_active = p.filters.is_active]]

\* handleClearFilters up to loadData()
Opps_handleClearFilters_start(p) ==
    [p EXCEPT !.filters = InitialFilters]

Opps_spinnerOnly(p) == p.loading /\ p.opportunities.items = {}

\* ------------------------------------------------ OrganizationManagementPage
InitialOrgPage ==
    [organizations |-> <<>>, loading |-> TRUE, showCreateForm |-> FALSE,
     error |-> NULL, success |-> NULL, newOrgName |-> "", creating |-> FALSE]

Org_loadOrganizations_try(p, data) ==
    [p EXCEPT !.organizations = data, !.loading = FALSE]

Org_loadOrganizations_catch(p) ==
    [p EXCEPT !.error = "Failed to load organizations", !.loading = FALSE]

Org_handleCreateOrganization_start(p) ==
    [p EXCEPT !.creating = TRUE, !.error = NULL, !.success = NULL]

Org_handleCreateOrganization_try(p) ==
    [p EXCEPT !.success = "Organization created successfully!", !.newOrgName = "",
              !.showCreateForm = FALSE]

Org_handleCreateOrganization_catch(p, detail) ==
    [p EXCEPT !.error = OrElse(detail, "Failed to create organization"),
              !.creating = FALSE]

Org_handleCreateOrganization_finally(p) ==
    [p EXCEPT !.creating = FALSE]

Org_handleViewOrganization_catch(p) ==
    [p EXCEPT !.error = "Failed to fetch organization details"]

\* ------------------------------------------------------------------ HomePage
InitialHomePage == [bids |-> <<>>, loading |-> TRUE]

Home_loadBids_try(p, data) == [p EXCEPT !.bids = data, !.loading = FALSE]

\* a loadBids without its finally
Home_loadBids_catch_spinning(p) == p

\* what the 'Your Bids' section renders
Home_view(p) ==
    IF p.loading THEN "Loading bids..."
    ELSE IF Len(p.bids) = 0 THEN "No bids yet"
    ELSE "grid"

Home_loadBids_catch(p) == [p EXCEPT !.loading = FALSE]

\* ------------------------------------------------------------------ backend
\* The REST backend behind ../api/client: the compliance_rules and organizations
\* tables, and the opportunities and bids that these pages only read.
Pages == {"rules", "opps", "orgs", "home"}

InitialServers(pg) ==
    CASE pg = "rules" ->
           {[rules |-> {SeedRule}, nextId |-> 2, orgs |-> <<>>, opps |-> {}, bids |-> <<>>]}
      [] pg = "opps" ->
           {[rules |-> {}, nextId |-> 2, orgs |-> <<>>, opps |-> {"opp-1"}, bids |-> <<>>]}
      [] pg = "orgs" ->
           {[rules |-> {}, nextId |-> 2, orgs |-> os, opps |-> {}, bids |-> <<>>] :
              os \in {<<>>, <<"Acme">>}}
      [] pg = "home" ->
           {[rules |-> {}, nextId |-> 2, orgs |-> <<>>, opps |-> {}, bids |-> bs] :
              bs \in {<<>>, <<"bid-1">>}}

\* the payload of the list request of loadData / loadOrganizations / loadBids
Server_getAll(t) ==
    CASE page = "rules" -> server.rules
      [] page = "opps" -> [req |-> t.n, items |-> server.opps]
      [] page = "orgs" -> server.orgs
      [] page = "home" -> server.bids

Server_getByJurisdiction(jurisdictionId) ==
    {r \in server.rules : r.jurisdiction_id = jurisdictionId}

Server_createdRule(body) ==
    [id |-> server.nextId, jurisdiction_id |-> body.jurisdiction_id,
     rule_name |-> body.rule_name, rule_type |-> body.rule_type,
     rule_definition |-> body.rule_definition, severity |-> body.severity]

Server_updatedRule(r, body) ==
    [r EXCEPT !.rule_name = body.rule_name, !.rule_type = body.rule_type,
              !.rule_definition = body.rule_definition, !.severity = body.severity]

\* ------------------------------------------------------------------- mount
\* useEffect(() => { loadData(); }, []) of each page
MountTask(pg) ==
    CASE pg = "rules" ->
           StartLoad(CallTask("load", Request("complianceRulesApi.getAll", <<>>), 1), TRUE)
      [] pg = "opps" ->
           StartLoad(CallTask("load", Request("opportunitiesApi.getAll", <<0, 100, TRUE>>), 1),
                     TRUE)
      [] pg = "orgs" ->
           StartLoad(CallTask("load", Request("organizationsApi.getAll", <<>>), 1), FALSE)
      [] pg = "home" ->
           StartLoad(CallTask("load", Request("bidsApi.getAll", <<>>), 1), FALSE)

InitialPage(pg) ==
    CASE pg = "rules" -> InitialRulesPage
      [] pg = "opps" -> InitialOppsPage
      [] pg = "orgs" -> InitialOrgPage
      [] pg = "home" -> InitialHomePage

LoadHandler ==
    CASE page = "rules" -> "loadData"
      [] page = "opps" -> "loadData"
      [] page = "orgs" -> "loadOrganizations"
      [] page = "home" -> "loadBids"

Init ==
    /\ page \in Pages
    /\ ui = InitialPage(page)
    /\ server \in InitialServers(page)
    /\ tasks = <<MountTask(page)>>
    /\ timers = <<>>
    /\ ops = 1
    /\ ev = Quiet

\* the user acts once more
CanAct == ops < MaxOps

\* ------------------------------------------------- ComplianceRulesPage: user
RulesLoadTask(n) ==
    StartLoad(CallTask("load", Request("complianceRulesApi.getAll", <<>>), n), TRUE)

\* onChange of the jurisdiction filter select
handleFilterByJurisdiction(jurisdictionId) ==
    /\ page = "rules" /\ ~Rules_spinnerOnly(ui) /\ CanAct
    /\ jurisdictionId \in {""} \cup {j.id : j \in ui.jurisdictions}
    /\ jurisdictionId # ui.selectedJurisdiction
    /\ ui' = Rules_handleFilterByJurisdiction_start(ui, jurisdictionId)
    /\ tasks' = Append(tasks,
                  IF jurisdictionId = ""
                  THEN RulesLoadTask(ops + 1)
                  ELSE CallTask("filter",
                                Request("complianceRulesApi.getByJurisdiction",
                                        <<jurisdictionId>>), ops + 1))
    /\ ops' = ops + 1
    /\ ev' = Quiet
    /\ UNCHANGED <<page, server, timers>>

createButtonClick ==
    /\ page = "rules" /\ ~Rules_spinnerOnly(ui) /\ CanAct
    /\ ui' = Rules_createButtonClick(ui)
    /\ ev' = Quiet
    /\ ops' = ops + 1
    /\ UNCHANGED <<page, server, tasks, timers>>

cancelButtonClick ==
    /\ page = "rules" /\ ~Rules_spinnerOnly(ui) /\ Rules_formShown(ui) /\ CanAct
    /\ ui' = Rules_cancelButtonClick(ui)
    /\ ev' = Quiet
    /\ ops' = ops + 1
    /\ UNCHANGED <<page, server, tasks, timers>>

handleEditClick(rule) ==
    /\ page = "rules" /\ ~Rules_spinnerOnly(ui) /\ CanAct
    /\ rule \in ui.rules
    /\ ui' = Rules_handleEditClick(ui, rule)
    /\ ev' = Quiet
    /\ ops' = ops + 1
    /\ UNCHANGED <<page, server, tasks, timers>>

\* onChange of the form's fields; the jurisdiction select is disabled while
\* editing and offers the loaded jurisdictions otherwise
formChange(f) ==
    /\ page = "rules" /\ ~Rules_spinnerOnly(ui) /\ Rules_formShown(ui) /\ CanAct
    /\ ui.editingRule # {} \/ f.jurisdiction_id \in {j.id : j \in ui.jurisdictions}
    /\ ui' = [ui EXCEPT !.formData =
                 IF ui.editingRule # {}
                 THEN [f EXCEPT !.jurisdiction_id = ui.formData.jurisdiction_id]
                 ELSE f]
    /\ ev' = Quiet
    /\ ops' = ops + 1
    /\ UNCHANGED <<page, server, tasks, timers>>

\* the submit button is enabled and the required fields are filled
Rules_canSubmit ==
    /\ page = "rules" /\ ~Rules_spinnerOnly(ui) /\ Rules_formShown(ui)
    /\ ~ui.loading /\ Rules_formValid(ui) /\ CanAct

\* onSubmit when editingRule is null
handleCreateRule ==
    /\ Rules_canSubmit /\ ui.editingRule = {}
    /\ ui' = Rules_handleCreateRule_start(ui)
    /\ tasks' = Append(tasks, CallTask("create",
                    Request("complianceRulesApi.create", <<ui.formData>>), ops + 1))
    /\ ops' = ops + 1
    /\ ev' = Quiet
    /\ UNCHANGED <<page, server, timers>>

\* onSubmit when editingRule is set
handleUpdateRule ==
    /\ Rules_canSubmit /\ ui.editingRule # {}
    /\ LET submit == Rules_handleUpdateRule_submit(ui)
       IN  /\ ui' = submit.state
           /\ tasks' = Append(tasks, CallTask("update", submit.calls[1], ops + 1))
           /\ ev' = Quiet
    /\ ops' = ops + 1
    /\ UNCHANGED <<page, server, timers>>

\* onClick of a rule's delete button; confirmed is what window.confirm returns
handleDeleteRule(rule, confirmed) ==
    /\ page = "rules" /\ ~Rules_spinnerOnly(ui) /\ CanAct
    /\ rule \in ui.rules
    /\ ui' = Rules_handleDeleteRule_start(ui, confirmed)
    /\ tasks' = IF ~confirmed THEN tasks
                ELSE Append(tasks, CallTask("delete",
                         Request("complianceRulesApi.delete", <<rule.id>>), ops + 1))
    /\ ev' = IF ~confirmed THEN Event("handleDeleteRule", "cancel", "none", rule.id)
             ELSE Quiet
    /\ ops' = ops + 1
    /\ UNCHANGED <<page, server, timers>>

\* --------------------------------------------------- OpportunitiesPage: user
\* what the filter inputs let the user enter: the loaded jurisdictions' codes,
\* a NAICS code, and the texts of the three number inputs
MinValueTexts == {<<>>, <<"1", "0", "0", "0", "0", "0">>}
MaxValueTexts == {<<>>, <<"2", ".", "5">>}
DaysTexts == {<<>>, <<"1", "e", "2">>}

FilterInputs(p) ==
    ({"jurisdiction"} \X ({""} \cup {j.code : j \in p.jurisdictions}))
    \cup ({"naics"} \X {"", "236220"})
    \cup ({"min_value"} \X MinValueTexts)
    \cup ({"max_value"} \X MaxValueTexts)
    \cup ({"days_until_due"} \X DaysTexts)
    \cup ({"is_active"} \X BOOLEAN)

\* onChange of one filter input
filterChange(field, value) ==
    /\ page = "opps" /\ ~Opps_spinnerOnly(ui)
    /\ CanAct
    /\ <<field, value>> \in FilterInputs(ui)
    /\ ui.filters[field] # value
    /\ ui' = [ui EXCEPT !.filters = [@ EXCEPT ![field] = value]]
    /\ ops' = ops + 1
    /\ ev' = Quiet
    /\ UNCHANGED <<page, server, tasks, timers>>

handleSearch ==
    /\ page = "opps" /\ ~Opps_spinnerOnly(ui) /\ CanAct
    /\ LET req == Request("opportunitiesApi.simpleSearch", <<Opps_searchParams(ui.filters)>>)
       IN  /\ tasks' = Append(tasks, CallTask("search", req, ops + 1))
           /\ ev' = Quiet
    /\ ui' = Opps_handleSearch_start(ui)
    /\ ops' = ops + 1
    /\ UNCHANGED <<page, server, timers>>

handleClearFilters ==
    /\ page = "opps" /\ ~Opps_spinnerOnly(ui) /\ CanAct
    /\ ui' = Opps_handleClearFilters_start(ui)
    /\ tasks' = Append(tasks, StartLoad(CallTask("load",
                    Request("opportunitiesApi.getAll", <<0, 100, TRUE>>), ops + 1), TRUE))
    /\ ops' = ops + 1
    /\ ev' = Quiet
    /\ UNCHANGED <<page, server, timers>>

\* ------------------------------------------ OrganizationManagementPage: user
OrgNameInputs == {"", "Acme"}

openCreateForm ==
    /\ page = "orgs" /\ ~ui.loading /\ ~ui.showCreateForm /\ CanAct
    /\ ui' = [ui EXCEPT !.showCreateForm = TRUE]
    /\ ev' = Quiet
    /\ ops' = ops + 1
    /\ UNCHANGED <<page, server, tasks, timers>>

newOrgNameChange(name) ==
    /\ page = "orgs" /\ ~ui.loading /\ ui.showCreateForm /\ CanAct
    /\ name \in OrgNameInputs /\ name # ui.newOrgName
    /\ ui' = [ui EXCEPT !.newOrgName = name]
    /\ ev' = Quiet
    /\ ops' = ops + 1
    /\ UNCHANGED <<page, server, tasks, timers>>

cancelCreateForm ==
    /\ page = "orgs" /\ ~ui.loading /\ ui.showCreateForm /\ CanAct
    /\ ui' = [ui EXCEPT !.showCreateForm = FALSE, !.newOrgName = ""]
    /\ ev' = Quiet
    /\ ops' = ops + 1
    /\ UNCHANGED <<page, server, tasks, timers>>

\* onSubmit of the form: the name is required, the button disabled while creating
handleCreateOrganization ==
    /\ page = "orgs" /\ ~ui.loading /\ ui.showCreateForm
    /\ ~ui.creating /\ ui.newOrgName # "" /\ CanAct
    /\ LET req == Request("organizationsApi.create", <<[name |-> ui.newOrgName]>>)
       IN  /\ tasks' = Append(tasks, CallTask("createOrg", req, ops + 1))
           /\ ev' = Quiet
    /\ ui' = Org_handleCreateOrganization_start(ui)
    /\ ops' = ops + 1
    /\ UNCHANGED <<page, server, timers>>

handleViewOrganization(k) ==
    /\ page = "orgs" /\ ~ui.loading /\ CanAct
    /\ k \in 1..Len(ui.organizations)
    /\ tasks' = Append(tasks, CallTask("viewOrg",
                    Request("organizationsApi.getById", <<k>>), ops + 1))
    /\ ops' = ops + 1
    /\ ev' = Quiet
    /\ UNCHANGED <<page, ui, server, timers>>

\* --------------------------------------------------- the backend at work
\* The backend handles the request of task i and answers 2xx; the response
\* still has to travel back.
Answer(i, data) ==
    tasks' = ReplaceAt(tasks, i, [tasks[i] EXCEPT !.st = "ok", !.data = data])

Pending(i, kind) ==
    /\ i \in 1..Len(tasks)
    /\ tasks[i].stage = "call" /\ tasks[i].st = "sent" /\ tasks[i].kind = kind

Server_list(i) ==
    /\ i \in 1..Len(tasks) /\ tasks[i].stage = "load" /\ tasks[i].st = "sent"
    /\ Answer(i, Server_getAll(tasks[i]))
    /\ ev' = Quiet
    /\ UNCHANGED <<page, ui, server, timers, ops>>

Server_jurisdictions(i) ==
    /\ i \in 1..Len(tasks) /\ tasks[i].stage = "load" /\ tasks[i].j = "sent"
    /\ tasks' = ReplaceAt(tasks, i, [tasks[i] EXCEPT !.j = "ok"])
    /\ ev' = Quiet
    /\ UNCHANGED <<page, ui, server, timers, ops>>

Server_filter(i) ==
    /\ Pending(i, "filter")
    /\ Answer(i, Server_getByJurisdiction(tasks[i].req.args[1]))
    /\ ev' = Quiet
    /\ UNCHANGED <<page, ui, server, timers, ops>>

Server_create(i) ==
    /\ Pending(i, "create")
    /\ LET rule == Server_createdRule(tasks[i].req.args[1])
       IN  /\ server' = [server EXCEPT !.rules = @ \cup {rule}, !.nextId = @ + 1]
           /\ Answer(i, {rule})
    /\ ev' = Quiet
    /\ UNCHANGED <<page, ui, timers, ops>>

Server_update(i) ==
    /\ Pending(i, "update")
    /\ \E r \in server.rules :
         /\ r.id = tasks[i].req.args[1]
         /\ LET rule == Server_updatedRule(r, tasks[i].req.args[2])
            IN  /\ server' = [server EXCEPT !.rules = (@ \ {r}) \cup {rule}]
                /\ Answer(i, {rule})
    /\ ev' = Quiet
    /\ UNCHANGED <<page, ui, timers, ops>>

Server_delete(i) ==
    /\ Pending(i, "delete")
    /\ \E r \in server.rules :
         /\ r.id = tasks[i].req.args[1]
         /\ server' = [server EXCEPT !.rules = @ \ {r}]
    /\ Answer(i, {})
    /\ ev' = Quiet
    /\ UNCHANGED <<page, ui, timers, ops>>

\* which opportunities match is the backend's business: any subset may come back
Server_search(i) ==
    /\ Pending(i, "search")
    /\ \E items \in SUBSET server.opps : Answer(i, [req |-> tasks[i].n, items |-> items])
    /\ ev' = Quiet
    /\ UNCHANGED <<page, ui, server, timers, ops>>

Server_createOrg(i) ==
    /\ Pending(i, "createOrg")
    /\ server' = [server EXCEPT !.orgs = Append(@, tasks[i].req.args[1].name)]
    /\ Answer(i, {})
    /\ ev' = Quiet
    /\ UNCHANGED <<page, ui, timers, ops>>

Server_getById(i) ==
    /\ Pending(i, "viewOrg")
    /\ tasks[i].req.args[1] \in 1..Len(server.orgs)
    /\ Answer(i, {})
    /\ ev' = Quiet
    /\ UNCHANGED <<page, ui, server, timers, ops>>

\* ------------------------------------------------- responses and continuations
IsMutation(kind) == kind \in {"create", "update", "delete", "createOrg"}

HandlerName(kind) ==
    CASE kind = "load" -> LoadHandler
      [] kind = "filter" -> "handleFilterByJurisdiction"
      [] kind = "create" -> "handleCreateRule"
      [] kind = "update" -> "handleUpdateRule"
      [] kind = "delete" -> "handleDeleteRule"
      [] kind = "search" -> "handleSearch"
      [] kind = "createOrg" -> "handleCreateOrganization"
      [] kind = "viewOrg" -> "handleViewOrganization"

\* loadData / loadOrganizations / loadBids of the mounted page, resolved and rejected
LoadTry(p, t) ==
    CASE page = "rules" -> Rules_loadData_try(p, t.data, ServerJurisdictions)
      [] page = "opps" -> Opps_loadData_try(p, t.data, ServerJurisdictions)
      [] page = "orgs" -> Org_loadOrganizations_try(p, t.data)
      [] page = "home" -> Home_loadBids_try(p, t.data)

LoadCatch(p) ==
    CASE page = "rules" -> Rules_loadData_catch(p)
      [] page = "opps" -> Opps_loadData_catch(p)
      [] page = "orgs" -> Org_loadOrganizations_catch(p)
      [] page = "home" -> Home_loadBids_catch(p)

\* the handler's code between its own await and its loadData() (for the
\* handlers that end there, to their end)
CallTry(p, t) ==
    CASE t.kind = "filter" -> Rules_handleFilterByJurisdiction_try(p, t.data)
      [] t.kind = "create" -> Rules_handleCreateRule_try(p)
      [] t.kind = "update" -> Rules_handleUpdateRule_try(p)
      [] t.kind = "delete" -> Rules_handleDeleteRule_try(p)
      [] t.kind = "search" -> Opps_handleSearch_try(p, t.data)
      [] t.kind = "createOrg" -> Org_handleCreateOrganization_try(p)
      [] t.kind = "viewOrg" -> p

CallCatch(p, kind, detail) ==
    CASE kind = "filter" -> Rules_handleFilterByJurisdiction_catch(p)
      [] kind = "create" -> Rules_handleCreateRule_catch(p, detail)
      [] kind = "update" -> Rules_handleUpdateRule_catch(p, detail)
      [] kind = "delete" -> Rules_handleDeleteRule_catch(p, detail)
      [] kind = "search" -> Opps_handleSearch_catch(p)
      [] kind = "createOrg" -> Org_handleCreateOrganization_catch(p, detail)
      [] kind = "viewOrg" -> Org_handleViewOrganization_catch(p)

\* the handler's code after await loadData(): its finally
AfterLoad(p, kind) ==
    CASE kind \in {"create", "update"} -> Rules_handleSubmit_finally(p)
      [] kind = "createOrg" -> Org_handleCreateOrganization_finally(p)
      [] OTHER -> p

\* setTimeout(() => setSuccess(null), 3000) after await loadData()
ScheduleClear(ts, kind) ==
    IF IsMutation(kind) THEN Append(ts, NewTimer(SuccessDelayMs)) ELSE ts

\* the load of task i settles: loadData's try or catch, its finally, and the rest
\* of the handler that awaited it, in the same task of the event loop
FinishLoad(i, resolved, val) ==
    LET t == tasks[i]
    IN  /\ ui' = AfterLoad(IF resolved THEN LoadTry(ui, t) ELSE LoadCatch(ui), t.kind)
        /\ timers' = ScheduleClear(timers, t.kind)
        /\ tasks' = RemoveAt(tasks, i)
        /\ ev' = Event(HandlerName(t.kind), "end",
                       IF resolved THEN "resolved" ELSE "rejected", val)

\* Promise.all resolves: both responses of the load of task i are there
Load_resolves(i) ==
    /\ i \in 1..Len(tasks) /\ tasks[i].stage = "load"
    /\ tasks[i].st = "ok" /\ tasks[i].j \in {"ok", "none"}
    /\ FinishLoad(i, TRUE, tasks[i].data)
    /\ UNCHANGED <<page, server, ops>>

\* Promise.all rejects: a request of the load of task i that was not answered
\* fails (which: the list request or the jurisdictions request)
Load_rejects(i, which) ==
    /\ i \in 1..Len(tasks) /\ tasks[i].stage = "load"
    /\ IF which = "list" THEN tasks[i].st = "sent" ELSE tasks[i].j = "sent"
    /\ FinishLoad(i, FALSE, [failed |-> which, other |->
                              IF which = "list" THEN tasks[i].j ELSE tasks[i].st])
    /\ UNCHANGED <<page, server, ops>>

\* the handler's own call fails: the network is down (no detail), or the backend
\* answers an error, whose detail may be empty
Call_rejects(i, detail) ==
    /\ i \in 1..Len(tasks) /\ tasks[i].stage = "call" /\ tasks[i].st = "sent"
    /\ detail \in ErrorDetails
    /\ IsMutation(tasks[i].kind) \/ detail = NULL
    /\ ui' = CallCatch(ui, tasks[i].kind, detail)
    /\ tasks' = RemoveAt(tasks, i)
    /\ ev' = Event(HandlerName(tasks[i].kind), "catch", "none", detail)
    /\ UNCHANGED <<page, server, timers, ops>>

\* the response of the handler's own call arrives: the handler runs on to its
\* next await (loadData() of a create, update or delete) or to its end
Call_arrives(i) ==
    /\ i \in 1..Len(tasks) /\ tasks[i].stage = "call" /\ tasks[i].st = "ok"
    /\ ui' = CallTry(ui, tasks[i])
    /\ tasks' = IF IsMutation(tasks[i].kind)
                THEN ReplaceAt(tasks, i, StartLoad(tasks[i], page = "rules"))
                ELSE RemoveAt(tasks, i)
    /\ ev' = Event(HandlerName(tasks[i].kind), "try", "none", tasks[i].data)
    /\ UNCHANGED <<page, server, timers, ops>>

\* ------------------------------------------------------------------ timers
\* TickMs pass; a timer that is due runs before more time passes
Tick ==
    /\ timers # <<>>
    /\ \A k \in 1..Len(timers) : timers[k].left > 0
    /\ timers' = [k \in 1..Len(timers) |->
                    [timers[k] EXCEPT !.left = IF @ > TickMs THEN @ - TickMs ELSE 0]]
    /\ ev' = Quiet
    /\ UNCHANGED <<page, ui, server, tasks, ops>>

\* () => setSuccess(null)
Timer_fires ==
    /\ timers # <<>> /\ timers[1].left = 0
    /\ ui' = [ui EXCEPT !.success = NULL]
    /\ timers' = Tail(timers)
    /\ ev' = Event("setTimeout", "callback", "none", timers[1].delay)
    /\ UNCHANGED <<page, server, tasks, ops>>

\* the rules whose Edit and Delete buttons are rendered
RulesShown == IF page = "rules" THEN ui.rules ELSE {}

\* the values the rendered filter inputs offer
FiltersOffered == IF page = "opps" THEN FilterInputs(ui) ELSE {}

\* the organizations whose View Details button is rendered
OrgsShown == IF page = "orgs" THEN 1..Len(ui.organizations) ELSE {}

Next ==
    \/ \E j \in {"", "jur-md", "jur-dc"} : handleFilterByJurisdiction(j)
    \/ createButtonClick
    \/ cancelButtonClick
    \/ \E rule \in RulesShown : handleEditClick(rule)
    \/ \E f \in FormInputs : formChange(f)
    \/ handleCreateRule
    \/ handleUpdateRule
    \/ \E rule \in RulesShown, confirmed \in BOOLEAN : handleDeleteRule(rule, confirmed)
    \/ \E fv \in FiltersOffered : filterChange(fv[1], fv[2])
    \/ handleSearch
    \/ handleClearFilters
    \/ openCreateForm
    \/ \E name \in OrgNameInputs : newOrgNameChange(name)
    \/ cancelCreateForm
    \/ handleCreateOrganization
    \/ \E k \in OrgsShown : handleViewOrganization(k)
    \/ \E i \in 1..Len(tasks) : Server_list(i)
    \/ \E i \in 1..Len(tasks) : Server_jurisdictions(i)
    \/ \E i \in 1..Len(tasks) : Server_filter(i)
    \/ \E i \in 1..Len(tasks) : Server_create(i)
    \/ \E i \in 1..Len(tasks) : Server_update(i)
    \/ \E i \in 1..Len(tasks) : Server_delete(i)
    \/ \E i \in 1..Len(tasks) : Server_search(i)
    \/ \E i \in 1..Len(tasks) : Server_createOrg(i)
    \/ \E i \in 1..Len(tasks) : Server_getById(i)
    \/ \E i \in 1..Len(tasks) : Load_resolves(i)
    \/ \E i \in 1..Len(tasks), which \in {"list", "jurisdictions"} : Load_rejects(i, which)
    \/ \E i \in 1..Len(tasks), detail \in ErrorDetails : Call_rejects(i, detail)
    \/ \E i \in 1..Len(tasks) : Call_arrives(i)
    \/ Tick
    \/ Timer_fires

Spec == Init /\ [][Next]_vars

\* a request in flight is answered or fails, or a response is delivered
Settles ==
    \E i \in 1..Len(tasks) :
       \/ Server_list(i) \/ Server_jurisdictions(i) \/ Server_filter(i)
       \/ Server_create(i) \/ Server_update(i) \/ Server_delete(i)
       \/ Server_search(i) \/ Server_createOrg(i) \/ Server_getById(i)
       \/ Load_resolves(i) \/ Call_arrives(i)
       \/ \E which \in {"list", "jurisdictions"} : Load_rejects(i, which)
       \/ \E detail \in ErrorDetails : Call_rejects(i, detail)

\* No request stays unsettled for ever (the HTTP client gets a response or an
\* error for each), time passes, and the event loop runs a timer that is due.
FairSpec == Spec /\ WF_vars(Settles) /\ WF_vars(Tick) /\ WF_vars(Timer_fires)

\* ---------------------------------------------------------------- properties
\* the entity list the mounted page displays
ListShown ==
    CASE page = "rules" -> ui.rules
      [] page = "opps" -> ui.opportunities
      [] page = "orgs" -> ui.organizations
      [] page = "home" -> ui.bids

\* the step is the end of the create, update or delete handler of task i: the
\* loadData it awaited settles
MutationEnds(i) ==
    /\ IsMutation(tasks[i].kind) /\ tasks[i].stage = "load"
    /\ tasks' = RemoveAt(tasks, i)

\* the tasks that begin a loadData in this step
LoadsBegun ==
    {i \in 1..Len(tasks') :
        /\ tasks'[i].stage = "load"
        /\ \A k \in 1..Len(tasks) :
              tasks[k].n = tasks'[i].n => tasks[k].stage # "load"}

C2_ListIsPayload ==
    [][ListShown' # ListShown =>
         \E i \in 1..Len(tasks) :
            /\ tasks[i].st = "ok"
            /\ tasks[i].stage = "load" \/ tasks[i].kind \in {"filter", "search"}
            /\ ListShown' = tasks[i].data
            /\ tasks' = RemoveAt(tasks, i)]_vars

\* a create has finished and the list holds the new rule, with the id the
\* backend gave it
C2_Witness ==
    /\ ev.h = "handleCreateRule" /\ ev.at = "end" /\ ev.load = "resolved"
    /\ Cardinality(ui.rules) = 2 /\ ui.rules = server.rules

\* C3: a handleDeleteRule whose confirmation is cancelled sends nothing and
\* changes no state, and no step that cancels adds a delete request.
C3_CancelChangesNothing ==
    [][ev'.at = "cancel" =>
         /\ UNCHANGED <<ui, tasks, server, timers>>
         /\ \A i \in 1..Len(tasks') : tasks'[i].kind = "delete" =>
               \E k \in 1..Len(tasks) : tasks[k] = tasks'[i]]_vars

\* a delete was cancelled while an error banner was up
C3_Witness ==
    /\ ev.h = "handleDeleteRule" /\ ev.at = "cancel"
    /\ ui.error # NULL /\ ui.rules # {}

\* the step is a handleSearch: it appends a search request
IssuesSearch ==
    /\ Len(tasks') = Len(tasks) + 1
    /\ tasks'[Len(tasks')].kind = "search"

\* the parameters of the request the step sends
SentParams == tasks'[Len(tasks')].req.args[1]

\* the number a text denotes when all of it is a decimal literal; undefined
\* (the parameter is left out) for the empty text and for any other
ExactNumber(s) ==
    IF s # <<>> /\ parseFloatEnd(s).d = Len(s) + 1 /\ parseFloat(s).t = "number"
    THEN parseFloat(s) ELSE Undefined

\* C4 (as stated): the request of handleSearch leaves out every filter field
\* that is empty, carries every set field with its exact value, and leaves out
\* a numeric field whose text is not a number rather than sending NaN.
C4_AsStated ==
    [][IssuesSearch =>
         /\ SentParams.jurisdiction =
               IF ui.filters.jurisdiction = "" THEN "undefined" ELSE ui.filters.jurisdiction
         /\ SentParams.naics =
               IF ui.filters.naics = "" THEN "undefined" ELSE ui.filters.naics
         /\ \A f \in {"min_value", "max_value", "days_until_due"} :
               SentParams[f] = ExactNumber(ui.filters[f])]_vars

\* the filters of the scenario: jurisdiction "MD", min_value "100000"
MDFilters ==
    [InitialFilters EXCEPT !.jurisdiction = "MD",
                           !.min_value = <<"1", "0", "0", "0", "0", "0">>]

\* C5: with jurisdiction "MD", min_value "100000" and every other filter at its
\* initial value, the request of handleSearch has jurisdiction "MD" and min_value
\* the number 100000 (1 * 10^5), and naics, max_value and days_until_due are
\* undefined, which the client leaves out of the query.
C5_MDSearch ==
    [][(IssuesSearch /\ ui.filters = MDFilters) =>
         SentParams = [jurisdiction |-> "MD", naics |-> "undefined",
                       min_value |-> [t |-> "number", m |-> 1, e |-> 5],
                       max_value |-> Undefined, is_active |-> TRUE,
                       days_until_due |-> Undefined]]_vars

\* the search with those filters is on its way
C5_Witness ==
    /\ page = "opps" /\ ui.filters = MDFilters
    /\ \E i \in 1..Len(tasks) :
          /\ tasks[i].kind = "search"
          /\ tasks[i].req.args[1].jurisdiction = "MD"
          /\ tasks[i].req.args[1].min_value = [t |-> "number", m |-> 1, e |-> 5]

\* the message of a failed loadData
LoadFailureMessage ==
    CASE page = "rules" -> "Failed to load compliance rules"
      [] page = "opps" -> "Failed to load opportunities"
      [] page = "orgs" -> "Failed to load organizations"
      [] page = "home" -> NULL

\* C6: on the pages with a loadData, the list request and the jurisdictions
\* request are sent in the same step; when either fails, error is the page's
\* load-failure message, loading is false and neither list changes, whether or
\* not the other request was answered; when both are answered both lists are
\* replaced, and the jurisdictions list changes in no other step.
C6_AllOrNothing ==
    [][(page \in {"rules", "opps"}) =>
         /\ \A i \in LoadsBegun : tasks'[i].st = "sent" /\ tasks'[i].j = "sent"
         /\ ev'.load = "rejected" =>
               /\ ui'.error = LoadFailureMessage /\ ui'.loading = FALSE
               /\ ListShown' = ListShown /\ ui'.jurisdictions = ui.jurisdictions
         /\ ev'.load = "resolved" =>
               /\ ListShown' = ev'.val /\ ui'.jurisdictions = ServerJurisdictions
         /\ ui'.jurisdictions # ui.jurisdictions => ev'.load = "resolved"]_vars

\* a reload failed on its jurisdictions request after its list request was
\* answered, and the list loaded before is still shown
C6_Witness ==
    /\ page = "opps" /\ ev.load = "rejected"
    /\ ev.val.failed = "jurisdictions" /\ ev.val.other = "ok"
    /\ ui.opportunities.items # {} /\ ui.error = "Failed to load opportunities"
    /\ ~ui.loading

\* C7 (as stated): when the create or update call of a rule succeeds, the
\* handler shows its success message, closes the form (showCreateForm false,
\* editingRule null), resets every form field to its initial value and sends the
\* reload; a successful organization create shows its message, clears the name,
\* closes the form and sends the reload.
C7_AsStated ==
    [][ev'.at = "try" =>
         /\ ev'.h \in {"handleCreateRule", "handleUpdateRule"} =>
               /\ ui'.success = IF ev'.h = "handleCreateRule"
                                THEN "Compliance rule created successfully!"
                                ELSE "Compliance rule updated successfully!"
               /\ ~ui'.showCreateForm /\ ui'.editingRule = {}
               /\ ui'.formData =
                     [jurisdiction_id |-> "", rule_name |-> "", rule_type |-> "MBE",
                      rule_definition |-> [threshold |-> 0, description |-> ""],
                      severity |-> "ERROR"]
               /\ LoadsBegun # {}
         /\ ev'.h = "handleCreateOrganization" =>
               /\ ui'.success = "Organization created successfully!"
               /\ ui'.newOrgName = "" /\ ~ui'.showCreateForm
               /\ LoadsBegun # {}]_vars

\* the handlers of the mutations, and the fallback message of each
MutationHandlers ==
    {"handleCreateRule", "handleUpdateRule", "handleDeleteRule", "handleCreateOrganization"}

FallbackMessage(h) ==
    CASE h = "handleCreateRule" -> "Failed to create rule"
      [] h = "handleUpdateRule" -> "Failed to update rule"
      [] h = "handleDeleteRule" -> "Failed to delete rule"
      [] h = "handleCreateOrganization" -> "Failed to create organization"

\* C8: when the call of a create, update or delete fails, error is the detail
\* of the error response where it has one (a detail that is not empty), and the
\* handler's fallback message where it has none.
C8_DetailOrFallback ==
    [][(ev'.at = "catch" /\ ev'.h \in MutationHandlers) =>
         ui'.error = IF ev'.val \notin {NULL, ""} THEN ev'.val
                     ELSE FallbackMessage(ev'.h)]_vars

\* a delete failed with a detail, and the banner shows it
C8_Witness ==
    /\ ev.at = "catch" /\ ev.h = "handleDeleteRule"
    /\ ev.val = "Rule name already exists" /\ ui.error = "Rule name already exists"

\* C9 (as stated): a load that succeeds removes the load-failure banner: after
\* a loadData or loadOrganizations resolved, error is not the load-failure
\* message.
C9_AsStated ==
    [][(page # "home" /\ ev'.load = "resolved") => ui'.error # LoadFailureMessage]_vars

\* the pages with a success banner, and the message it shows
HasSuccessBanner == page \in {"rules", "orgs"}

SuccessShown == IF HasSuccessBanner THEN ui.success ELSE NULL

\* the step runs the callback of a timer set for 3000 ms, 3000 ms after it was set
TimerFires ==
    /\ timers # <<>> /\ timers[1] = [delay |-> 3000, left |-> 0]
    /\ timers' = Tail(timers) /\ ev'.at = "callback"

\* the step is the start of a create, update or delete handler: it sends the call
MutationStarts ==
    /\ Len(tasks') = Len(tasks) + 1
    /\ IsMutation(tasks'[Len(tasks')].kind) /\ tasks'[Len(tasks')].stage = "call"

\* C10 (as amended): the success message is set when the call of a create,
\* update or delete succeeds; when the handler's reload has settled a timer of
\* 3000 ms is set, which fires after 3000 ms and not before; the message stays
\* non-null until a timer of 3000 ms fires or the next create, update or delete
\* handler starts (it clears the message first); and, when every request
\* settles, a message shown is eventually cleared.
C10_BannerCleared ==
    /\ [][HasSuccessBanner =>
            /\ (ev'.at = "try" /\ ev'.h \in MutationHandlers) => ui'.success # NULL
            /\ \A i \in 1..Len(tasks) :
                  MutationEnds(i) =>
                     timers' = Append(timers, [delay |-> 3000, left |-> 3000])
            /\ ev'.at = "callback" => TimerFires
            /\ (SuccessShown # NULL /\ SuccessShown' = NULL) =>
                  (TimerFires \/ MutationStarts)]_vars
    /\ (SuccessShown # NULL) ~> (SuccessShown = NULL)

\* the timer of a finished update has fired and cleared its message
C10_Witness ==
    /\ page = "rules" /\ ev.at = "callback" /\ ev.val = 3000
    /\ ui.success = NULL /\ timers = <<>> /\ tasks = <<>>
    /\ \E r \in ui.rules : r.id = 1

\* C10 (as stated): the success message, once set, stays non-null until a timer
\* of 3000 ms fires.
C10_AsStated ==
    [][(SuccessShown # NULL /\ SuccessShown' = NULL) => TimerFires]_vars

\* C11 (as amended): handleSearch clears the error and sets loading when it
\* starts; when its request succeeds the list becomes the search result, loading
\* becomes false and the error is left as it is (an error that another handler
\* set meanwhile stays); when its request fails the list is left as it is, the
\* error becomes 'Search failed' and loading becomes false.
C11_SearchOutcome ==
    [][/\ IssuesSearch => (ui'.error = NULL /\ ui'.loading)
       /\ (ev'.h = "handleSearch" /\ ev'.at = "try") =>
             /\ ui'.opportunities = ev'.val /\ ~ui'.loading
             /\ ui'.error = ui.error
       /\ (ev'.h = "handleSearch" /\ ev'.at = "catch") =>
             /\ ui'.opportunities = ui.opportunities /\ ~ui'.loading
             /\ ui'.error = "Search failed"]_vars

\* a search has succeeded: its result is shown and no error
C11_Witness ==
    /\ ev.h = "handleSearch" /\ ev.at = "try"
    /\ ui.opportunities.req > 1 /\ ui.opportunities = ev.val
    /\ ui.error = NULL /\ ~ui.loading

\* C11 (as stated): after a search that succeeds the list is the search result
\* and no error is shown; after a search that fails the list is as it was, the
\* error is 'Search failed' and loading is false.
C11_AsStated ==
    [][/\ (ev'.h = "handleSearch" /\ ev'.at = "try") =>
             (ui'.opportunities = ev'.val /\ ui'.error = NULL)
       /\ (ev'.h = "handleSearch" /\ ev'.at = "catch") =>
             /\ ui'.opportunities = ui.opportunities /\ ~ui'.loading
             /\ ui'.error = "Search failed"]_vars

\* the step is a handleClearFilters: on the opportunities page it appends a load
IssuesClear ==
    /\ page = "opps" /\ Len(tasks') = Len(tasks) + 1
    /\ tasks'[Len(tasks')].kind = "load"

\* C12: handleClearFilters sets all six filters to their defaults, whatever they
\* were, and calls loadData, which requests getAll(0, 100, true); when that load
\* resolves, the list shown is the payload of that request.
C12_ClearFilters ==
    [][/\ IssuesClear =>
             /\ ui'.filters = [jurisdiction |-> "", naics |-> "", min_value |-> <<>>,
                               max_value |-> <<>>, is_active |-> TRUE,
                               days_until_due |-> <<>>]
             /\ tasks'[Len(tasks')].stage = "load"
             /\ tasks'[Len(tasks')].req =
                   [api |-> "opportunitiesApi.getAll", args |-> <<0, 100, TRUE>>]
       /\ \A i \in 1..Len(tasks) :
             (/\ page = "opps" /\ tasks[i].kind = "load" /\ tasks[i].n > 1
              /\ tasks' = RemoveAt(tasks, i) /\ ev'.load = "resolved") =>
                (ui'.opportunities = tasks[i].data /\ ui'.opportunities.req = tasks[i].n)]_vars

\* the reload of a Clear Filters has resolved and its payload is shown
C12_Witness ==
    /\ page = "opps" /\ ev.h = "loadData" /\ ev.at = "end" /\ ev.load = "resolved"
    /\ ui.opportunities.req > 1 /\ ui.opportunities.items # {}
    /\ ui.filters = InitialFilters

\* every submit button is enabled and no page shows only its spinner
ControlsEnabled ==
    /\ ~ui.loading
    /\ page = "orgs" => ~ui.creating

MaxDueDay == 22

MsPerDay == 1000 * 60 * 60 * 24

\* a JavaScript value that is null, NaN or an integer
Null == [t |-> "null", v |-> 0]
NotANumber == [t |-> "NaN", v |-> 0]
Num(v) == [t |-> "number", v |-> v]

\* Math.floor and Math.ceil of a / b for integers a and b > 0. The quotient of
\* the code is a double: a is below 2^53 and b = 86400000, so a quotient that is
\* not an integer is at least 1/b away from one, far more than the rounding.
Math_floor(a, b) == a \div b
Math_ceil(a, b) == -((-a) \div b)

\* the text YYYY-MM-DD of a calendar date, as the backend serialises a date
IsoDate(y, m, d) ==
    LET DigitChar(n) ==
            CASE n = 0 -> "0" [] n = 1 -> "1" [] n = 2 -> "2" [] n = 3 -> "3"
              [] n = 4 -> "4" [] n = 5 -> "5" [] n = 6 -> "6" [] n = 7 -> "7"
              [] n = 8 -> "8" [] n = 9 -> "9"
        Pad2(n) == <<DigitChar((n \div 10) % 10), DigitChar(n % 10)>>
    IN  Pad2(y \div 100) \o Pad2(y % 100) \o <<"-">> \o Pad2(m) \o <<"-">> \o Pad2(d)

IsLeap(y) == (y % 4 = 0 /\ y % 100 # 0) \/ y % 400 = 0

DaysInMonth(y, m) ==
    IF m = 2 THEN (IF IsLeap(y) THEN 29 ELSE 28)
    ELSE IF m \in {4, 6, 9, 11} THEN 30 ELSE 31

RECURSIVE DaysBeforeMonth(_, _)
DaysBeforeMonth(y, m) ==
    IF m <= 1 THEN 0 ELSE DaysBeforeMonth(y, m - 1) + DaysInMonth(y, m - 1)

\* the days from 1 January 1970 to 1 January of y (y >= 1970)
DaysBeforeYear(y) ==
    365 * (y - 1970) + ((y - 1969) \div 4) - ((y - 1901) \div 100) + ((y - 1601) \div 400)

\* new Date(text).getTime(): the date-only form YYYY-MM-DD is midnight UTC of
\* that day, in milliseconds since the epoch; a text that is not a date gives an
\* invalid Date, whose time is NaN. (Integers are 32 bits wide here, which is why
\* the dates of the inputs are in January 1970.)
Date_getTime(s) ==
    IF ~(/\ Len(s) = 10 /\ s[5] = "-" /\ s[8] = "-"
         /\ \A i \in {1, 2, 3, 4, 6, 7, 9, 10} : s[i] \in Digits)
    THEN NotANumber
    ELSE LET y == DigitsValue(s, 1, 5, 0)
             m == DigitsValue(s, 6, 8, 0)
             d == DigitsValue(s, 9, 11, 0)
         IN  IF y < 1970 \/ m \notin 1..12 \/ d \notin 1..DaysInMonth(y, m)
             THEN NotANumber
             ELSE Num((DaysBeforeYear(y) + DaysBeforeMonth(y, m) + d - 1) * MsPerDay)

\* a calculateDaysUntilDue that drops the started day
calculateDaysUntilDue_floor(dueDate, today) ==
    IF dueDate = {} \/ dueDate = {<<>>} THEN Null
    ELSE LET due == Date_getTime(CHOOSE s \in dueDate : TRUE)
         IN  IF due.t = "NaN" THEN NotANumber
             ELSE Num(Math_floor(due.v - today, MsPerDay))

\* calculateDaysUntilDue(dueDate), called when new Date() is today (milliseconds
\* since the epoch). dueDate is null ({}) or a text ({text}); !dueDate holds
\* for null and for the empty text.
calculateDaysUntilDue(dueDate, today) ==
    IF dueDate = {} \/ dueDate = {<<>>} THEN Null
    ELSE LET due == Date_getTime(CHOOSE s \in dueDate : TRUE)
         IN  IF due.t = "NaN" THEN NotANumber
             ELSE Num(Math_ceil(due.v - today, MsPerDay))

\* the due dates of the opportunities: none, the empty text, a text that is no
\* date, and the days of January 1970
DueDates == {{}, {<<>>}, {<<"T", "B", "D">>}} \cup {{IsoDate(1970, 1, d)} : d \in 1..MaxDueDay}

\* the clock: the start, the first millisecond, the middle and the last
\* millisecond of 2 January and of 10 January 1970
Clocks == {day * MsPerDay + ms : day \in {1, 9}, ms \in {0, 1, MsPerDay \div 2, MsPerDay - 1}}

\* a function was called with args and returned result
Returned(f, args, result) == Event(f, "return", "none", [args |-> args, result |-> result])

\* a getSeverityIcon without the case 'WARNING'
getSeverityIcon_unwarned(severity) ==
    CASE severity = "ERROR" -> [icon |-> "AlertCircle", className |-> <<"w-5", "h-5", "text-red-500">>]
      [] severity = "INFO" -> [icon |-> "Info", className |-> <<"w-5", "h-5", "text-blue-500">>]
      [] OTHER -> [icon |-> "Shield", className |-> <<"w-5", "h-5", "text-gray-500">>]

\* getSeverityIcon(severity): the element it returns, with the classes of its
\* className
getSeverityIcon(severity) ==
    CASE severity = "ERROR" -> [icon |-> "AlertCircle", className |-> <<"w-5", "h-5", "text-red-500">>]
      [] severity = "WARNING" -> [icon |-> "AlertTriangle", className |-> <<"w-5", "h-5", "text-yellow-500">>]
      [] severity = "INFO" -> [icon |-> "Info", className |-> <<"w-5", "h-5", "text-blue-500">>]
      [] OTHER -> [icon |-> "Shield", className |-> <<"w-5", "h-5", "text-gray-500">>]

getSeverityColor(severity) ==
    CASE severity = "ERROR" -> "bg-red-100 text-red-800 border-red-200"
      [] severity = "WARNING" -> "bg-yellow-100 text-yellow-800 border-yellow-200"
      [] severity = "INFO" -> "bg-blue-100 text-blue-800 border-blue-200"
      [] OTHER -> "bg-gray-100 text-gray-800 border-gray-200"


\* ---- App: the route table. A path is the sequence of its segments ('/' is
\* ---- the empty sequence); a segment of a route that starts with ':' is a
\* ---- parameter
Route(path, element) == [path |-> path, element |-> element]

Params == {":id", ":opportunityId"}

\* <Routes> of src/src/App.tsx
Routes_App ==
    {Route(<<>>, "HomePage"),
     Route(<<"create-bid">>, "CreateBidPage"),
     Route(<<"bid", ":id">>, "BidDetailPage"),
     Route(<<"organizations">>, "OrganizationManagementPage"),
     Route(<<"subcontractors">>, "SubcontractorManagementPage")}

\* <Routes> of the App that also imports the directory, opportunities,
\* assessment and compliance rules pages
Routes_AppExtended ==
    {Route(<<>>, "HomePage"),
     Route(<<"create-bid">>, "CreateBidPage"),
     Route(<<"bid", ":id">>, "BidDetailPage"),
     Route(<<"organizations">>, "OrganizationManagementPage"),
     Route(<<"subcontractors">>, "SubcontractorManagementPage"),
     Route(<<"directory">>, "SubcontractorDirectoryPage"),
     Route(<<"opportunities">>, "OpportunitiesPage"),
     Route(<<"assessment", ":opportunityId">>, "PreBidAssessmentPage"),
     Route(<<"compliance-rules">>, "ComplianceRulesPage")}

\* the segments of a location: empty segments (a doubled or trailing '/', an
\* empty id in a template literal) are dropped
Segments(parts) == SelectSeq(parts, LAMBDA x : x # "")

\* a route matches a location that has as many segments, each equal to the
\* route's segment or standing for its parameter
RouteMatches(route, location) ==
    LET segs == Segments(location)
    IN  /\ Len(segs) = Len(route.path)
        /\ \A i \in 1..Len(segs) : route.path[i] \in Params \/ route.path[i] = segs[i]

\* a matching that takes a parameter for a joker that spans segments
RouteMatches_prefix(route, location) ==
    LET segs == Segments(location)
    IN  /\ Len(segs) >= Len(route.path)
        /\ \A i \in 1..Len(route.path) : route.path[i] \in Params \/ route.path[i] = segs[i]

\* what <Routes> renders at a location: the elements of the routes that match
\* (none: React Router renders nothing)
matchRoutes_prefix(routes, location) ==
    {route.element : route \in {r \in routes : RouteMatches_prefix(r, location)}}

matchRoutes(routes, location) ==
    {route.element : route \in {r \in routes : RouteMatches(r, location)}}

\* the ids of bids and opportunities
Ids == {"1", "42", "opp-7"}

\* the arguments of navigate() in the pages: HomePage.tsx 47, 55, 69, 92, 106;
\* OpportunitiesPage 104, 120; ComplianceRulesPage 223;
\* OrganizationManagementPage 599
NavigatedPaths ==
    {<<>>, <<"create-bid">>, <<"organizations">>, <<"subcontractors">>}
       \cup {<<"bid", id>> : id \in Ids} \cup {<<"assessment", id>> : id \in Ids}

\* the locations a user can open besides: the other routes, and paths that are
\* no route
Locations ==
    NavigatedPaths \cup {<<"directory">>, <<"opportunities">>, <<"compliance-rules">>,
                         <<"bid">>, <<"assessment">>, <<"bid", "1", "edit">>, <<"nowhere">>}

\* ---- the backend's settings (app/config.py, as the guide quotes it). The two
\* ---- connection strings of the guide are written without their credentials.
PoolerUrl == "postgresql://aws-1-us-east-1.pooler.supabase.com:5432/postgres"
DirectUrl == "postgresql://db.lfizixmiqrspdskubdyj.supabase.co:5432/postgres"

\* the values of the .env file: the ones of the guide, other values of
\* ENVIRONMENT, and other connection strings
Settings ==
    [ENVIRONMENT : {"development", "production", "Production", "prod", "staging", ""},
     DATABASE_URL_LOCAL : {PoolerUrl, "postgresql://localhost:5432/postgres"},
     DATABASE_URL_PRODUCTION : {DirectUrl, ""}]

\* a DATABASE_URL that compares ENVIRONMENT without regard to case
DATABASE_URL_caseless(self) ==
    IF self.ENVIRONMENT \in {"production", "Production"}
    THEN self.DATABASE_URL_PRODUCTION
    ELSE self.DATABASE_URL_LOCAL

\* the property DATABASE_URL of the settings
DATABASE_URL(self) ==
    IF self.ENVIRONMENT = "production"
    THEN self.DATABASE_URL_PRODUCTION
    ELSE self.DATABASE_URL_LOCAL

\* ---- the rules page with its form: after the mount load, in create mode with
\* ---- the form empty or filled in, and in edit mode on the loaded rule with
\* ---- the form as Edit filled it or changed (the jurisdiction select is
\* ---- disabled there)
FormStates ==
    LET loaded == Rules_loadData_try(InitialPage("rules"), {SeedRule}, ServerJurisdictions)
        creating == Rules_createButtonClick(loaded)
        editing == Rules_handleEditClick(loaded, SeedRule)
    IN  {creating} \cup {[creating EXCEPT !.formData = f] : f \in FormInputs}
           \cup {editing}
           \cup {[editing EXCEPT !.formData =
                     [f EXCEPT !.jurisdiction_id = editing.formData.jurisdiction_id]] :
                   f \in FormInputs}

\* what is on display: on the opportunities page a card, with its due date and
\* the clock; on the rules page a rule, with its severity (the three values of
\* the form's select, and values that only a backend can send); in App the route
\* table; in the backend's configuration the settings; on the rules page with
\* its form, the page state
RenderInputs(pg) ==
    CASE pg = "opps" -> [due_date : DueDates, today : Clocks]
      [] pg = "rules" -> [severity : {"ERROR", "WARNING", "INFO", "CRITICAL", "warning", ""}]
      [] pg = "app" -> [routes : {Routes_App, Routes_AppExtended}]
      [] pg = "config" -> Settings
      [] pg = "rules-form" -> FormStates

RenderInit ==
    /\ page \in {"opps", "rules", "app", "config", "rules-form"}
    /\ ui \in RenderInputs(page)
    /\ server = <<>>
    /\ tasks = <<>>
    /\ timers = <<>>
    /\ ops = 0
    /\ ev = Quiet

Render_calculateDaysUntilDue ==
    /\ page = "opps"
    /\ ev' = Returned("calculateDaysUntilDue", <<ui.due_date, ui.today>>,
                      calculateDaysUntilDue(ui.due_date, ui.today))
    /\ UNCHANGED <<page, ui, server, tasks, timers, ops>>

\* a getDueDateColor that counts day 7 as urgent
getDueDateColor_through7(days) ==
    IF days.t = "null" THEN "text-gray-600"
    ELSE IF days.t = "number" /\ days.v <= 7 THEN "text-red-600 font-semibold"
    ELSE IF days.t = "number" /\ days.v < 14 THEN "text-yellow-600 font-semibold"
    ELSE "text-gray-600"

\* getDueDateColor(days); a comparison with NaN is false
getDueDateColor(days) ==
    IF days.t = "null" THEN "text-gray-600"
    ELSE IF days.t = "number" /\ days.v < 7 THEN "text-red-600 font-semibold"
    ELSE IF days.t = "number" /\ days.v < 14 THEN "text-yellow-600 font-semibold"
    ELSE "text-gray-600"

\* the due line of an opportunity card: absent when daysUntilDue is null,
\* otherwise "Due in <days> days" in the class of getDueDateColor
DueLine(due_date, today) ==
    LET daysUntilDue == calculateDaysUntilDue(due_date, today)
    IN  IF daysUntilDue # Null
        THEN {[className |-> getDueDateColor(daysUntilDue), days |-> daysUntilDue]}
        ELSE {}

Render_getDueDateColor(days) ==
    /\ page = "opps"
    /\ ev' = Returned("getDueDateColor", <<days>>, getDueDateColor(days))
    /\ UNCHANGED <<page, ui, server, tasks, timers, ops>>

\* the card of the opportunity is rendered
Render_card ==
    /\ page = "opps"
    /\ ev' = Returned("card", <<ui.due_date, ui.today>>, DueLine(ui.due_date, ui.today))
    /\ UNCHANGED <<page, ui, server, tasks, timers, ops>>

Render_getSeverityIcon ==
    /\ page = "rules"
    /\ ev' = Returned("getSeverityIcon", <<ui.severity>>, getSeverityIcon(ui.severity))
    /\ UNCHANGED <<page, ui, server, tasks, timers, ops>>

Render_getSeverityColor ==
    /\ page = "rules"
    /\ ev' = Returned("getSeverityColor", <<ui.severity>>, getSeverityColor(ui.severity))
    /\ UNCHANGED <<page, ui, server, tasks, timers, ops>>

\* <Routes> renders at a location
Render_Routes(location) ==
    /\ page = "app"
    /\ ev' = Returned("Routes", <<location>>, matchRoutes(ui.routes, location))
    /\ UNCHANGED <<page, ui, server, tasks, timers, ops>>

\* the backend reads settings.DATABASE_URL
Render_DATABASE_URL ==
    /\ page = "config"
    /\ ev' = Returned("DATABASE_URL", <<ui>>, DATABASE_URL(ui))
    /\ UNCHANGED <<page, ui, server, tasks, timers, ops>>

\* the form is submitted to handleUpdateRule
Render_handleUpdateRule ==
    /\ page = "rules-form"
    /\ ev' = Returned("handleUpdateRule", <<ui>>, Rules_handleUpdateRule_submit(ui))
    /\ UNCHANGED <<page, ui, server, tasks, timers, ops>>

RenderNext ==
    \/ Render_calculateDaysUntilDue
    \/ \E days \in {Null, NotANumber} \cup {Num(v) : v \in (-3)..MaxDueDay} : Render_getDueDateColor(days)
    \/ Render_card
    \/ Render_getSeverityIcon
    \/ Render_getSeverityColor
    \/ \E location \in Locations : Render_Routes(location)
    \/ Render_DATABASE_URL
    \/ Render_handleUpdateRule

RenderSpec == RenderInit /\ [][RenderNext]_vars

\* ------------------------------------------------------------------ C14
\* the time of midnight UTC of day d of January 1970, counted without the parser
JanuaryMs(d) == (d - 1) * MsPerDay

\* C14: for a due date D and the clock T, calculateDaysUntilDue returns the
\* ceiling of (D - T) / 86,400,000 ms, that is the one integer r with
\* (r - 1) days < D - T <= r days, also when D is in the past; without a due
\* date it returns null.
C14_CeilingOfDays ==
    (ev.h = "calculateDaysUntilDue") =>
        LET dueDate == ev.val.args[1]
            T == ev.val.args[2]
            r == ev.val.result
        IN  /\ dueDate = {} => r = Null
            /\ \A d \in 1..MaxDueDay :
                  dueDate = {IsoDate(1970, 1, d)} =>
                     /\ r.t = "number"
                     /\ (r.v - 1) * MsPerDay < JanuaryMs(d) - T
                     /\ JanuaryMs(d) - T <= r.v * MsPerDay

\* the due date passed more than a day ago, and the function has returned
C14_Witness ==
    /\ ev.h = "calculateDaysUntilDue" /\ ev.val.result.t = "number"
    /\ ev.val.result.v < -1

\* ------------------------------------------------------------------ C15
Red == "text-red-600 font-semibold"
Yellow == "text-yellow-600 font-semibold"
Neutral == "text-gray-600"

\* D - T, for the due date 'day d of January 1970', is more than r - 1 days and
\* at most r days: the opportunity is due in r days
DueIn(r, due_date, today) ==
    \E d \in 1..MaxDueDay :
       /\ due_date = {IsoDate(1970, 1, d)}
       /\ (r - 1) * MsPerDay < JanuaryMs(d) - today
       /\ JanuaryMs(d) - today <= r * MsPerDay

\* C15: getDueDateColor returns the red class for days < 7, negative days
\* included, the yellow class for 7 <= days < 14, and the neutral class for
\* days >= 14 and for null; the card of an opportunity due in 5 days has the red
\* class and the card of one due in 20 days the neutral class.
C15_DueDateColor ==
    /\ (ev.h = "getDueDateColor") =>
          LET days == ev.val.args[1]
              c == ev.val.result
          IN  /\ (days.t = "number" /\ days.v < 7) => c = Red
              /\ (days.t = "number" /\ 7 <= days.v /\ days.v < 14) => c = Yellow
              /\ (days.t = "number" /\ days.v >= 14) => c = Neutral
              /\ days = Null => c = Neutral
    /\ (ev.h = "card") =>
          /\ DueIn(5, ev.val.args[1], ev.val.args[2]) =>
                ev.val.result = {[className |-> Red, days |-> Num(5)]}
          /\ DueIn(20, ev.val.args[1], ev.val.args[2]) =>
                ev.val.result = {[className |-> Neutral, days |-> Num(20)]}

\* the card of an opportunity due in 5 days has been rendered, in red
C15_Witness ==
    /\ ev.h = "card" /\ DueIn(5, ev.val.args[1], ev.val.args[2])
    /\ \E line \in ev.val.result : line.className = Red

\* ------------------------------------------------------------------ C16
\* what the claim gives for a severity: the icon, the colour class of the icon,
\* and the classes of the badge
SeverityTable(severity) ==
    CASE severity = "ERROR" ->
           <<"AlertCircle", "text-red-500", "bg-red-100 text-red-800 border-red-200">>
      [] severity = "WARNING" ->
           <<"AlertTriangle", "text-yellow-500", "bg-yellow-100 text-yellow-800 border-yellow-200">>
      [] severity = "INFO" ->
           <<"Info", "text-blue-500", "bg-blue-100 text-blue-800 border-blue-200">>
      [] OTHER ->
           <<"Shield", "text-gray-500", "bg-gray-100 text-gray-800 border-gray-200">>

\* the classes of a className that set a text colour
TextColours(className) ==
    {className[i] : i \in 1..Len(className)} \cap
       {"text-red-500", "text-yellow-500", "text-blue-500", "text-gray-500"}

\* C16: getSeverityIcon and getSeverityColor map ERROR to AlertCircle in
\* text-red-500 and the red badge classes, WARNING to AlertTriangle in
\* text-yellow-500 and the yellow badge classes, INFO to Info in text-blue-500
\* and the blue badge classes, and every other value to Shield in text-gray-500
\* and the gray badge classes.
C16_SeverityMapping ==
    /\ (ev.h = "getSeverityIcon") =>
          /\ ev.val.result.icon = SeverityTable(ev.val.args[1])[1]
          /\ TextColours(ev.val.result.className) = {SeverityTable(ev.val.args[1])[2]}
    /\ (ev.h = "getSeverityColor") =>
          ev.val.result = SeverityTable(ev.val.args[1])[3]

\* the icon of a severity that is none of the three has been computed
C16_Witness ==
    /\ ev.h = "getSeverityIcon" /\ ev.val.args[1] = "CRITICAL"
    /\ ev.val.result.icon = "Shield"

\* ------------------------------------------------------------------ C18
\* the nine pages that the claim says have a route, with a location of each
NinePages ==
    {<<"HomePage", <<>>>>, <<"CreateBidPage", <<"create-bid">>>>,
     <<"BidDetailPage", <<"bid", "42">>>>,
     <<"OrganizationManagementPage", <<"organizations">>>>,
     <<"SubcontractorManagementPage", <<"subcontractors">>>>,
     <<"SubcontractorDirectoryPage", <<"directory">>>>,
     <<"OpportunitiesPage", <<"opportunities">>>>,
     <<"PreBidAssessmentPage", <<"assessment", "opp-7">>>>,
     <<"ComplianceRulesPage", <<"compliance-rules">>>>}

\* C18 (as stated): the route table has a route for each of the nine pages, and
\* every path that a page navigates to is rendered by a route.
C18_AsStated ==
    (page = "app") =>
        /\ \A pl \in NinePages : matchRoutes(ui.routes, pl[2]) = {pl[1]}
        /\ (ev.h = "Routes" /\ ev.val.args[1] \in NavigatedPaths) => ev.val.result # {}

\* C18 (the extended table): under the table of nine routes each of the nine
\* pages has its route, every navigated path is rendered by exactly one route,
\* and a location with too few or too many segments by none.
C18_ExtendedTable ==
    (page = "app" /\ ui.routes = Routes_AppExtended) =>
        /\ \A pl \in NinePages : matchRoutes(ui.routes, pl[2]) = {pl[1]}
        /\ (ev.h = "Routes" /\ ev.val.args[1] \in NavigatedPaths) =>
              Cardinality(ev.val.result) = 1
        /\ (ev.h = "Routes" /\ ev.val.args[1] \in {<<"bid">>, <<"bid", "1", "edit">>}) =>
              ev.val.result = {}

\* the assessment of an opportunity has been opened under the table of nine
C18_Witness ==
    /\ page = "app" /\ ui.routes = Routes_AppExtended
    /\ ev.h = "Routes" /\ ev.val.args[1] = <<"assessment", "opp-7">>
    /\ ev.val.result = {"PreBidAssessmentPage"}

\* ------------------------------------------------------------------ C19
\* C19: DATABASE_URL is the production connection string when ENVIRONMENT is
\* "production", and the local one when it is "development" and for every
\* other value, whatever the two connection strings are.
C19_SelectedByEnvironment ==
    (ev.h = "DATABASE_URL") =>
        LET self == ev.val.args[1]
        IN  /\ self.ENVIRONMENT = "production" => ev.val.result = self.DATABASE_URL_PRODUCTION
            /\ self.ENVIRONMENT = "development" => ev.val.result = self.DATABASE_URL_LOCAL
            /\ self.ENVIRONMENT \notin {"production", "development"} =>
                  ev.val.result = self.DATABASE_URL_LOCAL

\* a value that is neither of the two, with the guide's connection strings
C19_Witness ==
    /\ ev.h = "DATABASE_URL" /\ ev.val.args[1].ENVIRONMENT = "Production"
    /\ ev.val.args[1].DATABASE_URL_PRODUCTION = DirectUrl
    /\ ev.val.result = PoolerUrl

\* ============================================ the rules page, form filled in
\* ComplianceRulesPage after its mount load has succeeded, 'Create Rule' was
\* clicked and the form was filled in with f
Rules_formFilled(f) ==
    [Rules_createButtonClick(
        Rules_loadData_try(InitialPage("rules"), {SeedRule}, ServerJurisdictions))
     EXCEPT !.formData = f]

\* the page from there on; ops counts the user events from this state
FormInit ==
    /\ page = "rules"
    /\ ui \in {Rules_formFilled(f) : f \in FormInputs}
    /\ server \in InitialServers("rules")
    /\ tasks = <<>>
    /\ timers = <<>>
    /\ ops = 1
    /\ ev = Quiet

FormNext ==
    \/ \E j \in {"", "jur-md", "jur-dc"} : handleFilterByJurisdiction(j)
    \/ createButtonClick
    \/ cancelButtonClick
    \/ \E rule \in RulesShown : handleEditClick(rule)
    \/ \E f \in FormInputs : formChange(f)
    \/ handleCreateRule
    \/ handleUpdateRule
    \/ \E rule \in RulesShown, confirmed \in BOOLEAN : handleDeleteRule(rule, confirmed)
    \/ \E i \in 1..Len(tasks) : Server_list(i)
    \/ \E i \in 1..Len(tasks) : Server_jurisdictions(i)
    \/ \E i \in 1..Len(tasks) : Server_filter(i)
    \/ \E i \in 1..Len(tasks) : Server_create(i)
    \/ \E i \in 1..Len(tasks) : Server_update(i)
    \/ \E i \in 1..Len(tasks) : Server_delete(i)
    \/ \E i \in 1..Len(tasks) : Load_resolves(i)
    \/ \E i \in 1..Len(tasks), which \in {"list", "jurisdictions"} : Load_rejects(i, which)
    \/ \E i \in 1..Len(tasks), detail \in ErrorDetails : Call_rejects(i, detail)
    \/ \E i \in 1..Len(tasks) : Call_arrives(i)
    \/ Tick
    \/ Timer_fires

FormSpec == FormInit /\ [][FormNext]_vars

\* the state FormSpec starts in is one the page reaches from its mount
FormInit_Reached ==
    /\ page = "rules" /\ tasks = <<>> /\ timers = <<>> /\ ops = 3
    /\ ui \in {Rules_formFilled(f) : f \in FormInputs}
    /\ server \in InitialServers("rules")

\* ------------------------------------------------------------------ C17
\* the response of task i is applied to the list in this step: a loadData
\* resolves, or the response of a jurisdiction filter arrives
ListReplacedBy(i) ==
    /\ tasks' = RemoveAt(tasks, i)
    /\ \/ tasks[i].stage = "load" /\ ev'.load = "resolved"
       \/ tasks[i].kind = "filter" /\ ev'.at = "try"
    /\ ui'.rules = tasks[i].data

\* the rules of severity WARNING that the list shows, as they are rendered
WarningRendered(r) ==
    /\ getSeverityIcon(r.severity).icon = "AlertTriangle"
    /\ "text-yellow-500" \in {getSeverityIcon(r.severity).className[k] : k \in 1..3}
    /\ getSeverityColor(r.severity) = "bg-yellow-100 text-yellow-800 border-yellow-200"

\* C17 (as amended): when the reload that follows a create succeeds, the list
\* is the payload of that reload, whichever jurisdiction is selected; a rule of
\* severity WARNING in the list is rendered with the warning icon and colour;
\* and such a rule leaves the list only in a step that replaces the list by a
\* response that does not hold it.
C17_WarningRule ==
    [][/\ \A i \in 1..Len(tasks) :
             (tasks[i].kind = "create" /\ MutationEnds(i) /\ ev'.load = "resolved") =>
                ui'.rules = tasks[i].data
       /\ \A r \in RulesShown' : r.severity = "WARNING" => WarningRendered(r)
       /\ \A r \in RulesShown :
             (r.severity = "WARNING" /\ r \notin RulesShown') =>
                \E i \in 1..Len(tasks) : ListReplacedBy(i) /\ r \notin tasks[i].data]_vars

\* the reload of the create has succeeded and shows the new rule, in a list that
\* is not filtered to the rule's jurisdiction
C17_Witness ==
    /\ ev.h = "handleCreateRule" /\ ev.at = "end" /\ ev.load = "resolved"
    /\ \E r \in RulesShown : r.id # SeedRule.id /\ r.severity = "WARNING" /\ WarningRendered(r)
    /\ SeedRule \in RulesShown

\* C17 (as stated): after the reload that follows the create has succeeded, the
\* created rule is in the list; and a rule of severity WARNING leaves the list
\* only in the step in which the response of a filter for another jurisdiction
\* arrives.
C17_AsStated ==
    [][/\ (ev'.h = "handleCreateRule" /\ ev'.at = "end" /\ ev'.load = "resolved") =>
             \E r \in RulesShown' : r.id # SeedRule.id /\ r.severity = "WARNING"
       /\ \A r \in RulesShown :
             (r.severity = "WARNING" /\ r \notin RulesShown') =>
                \E i \in 1..Len(tasks) :
                   /\ tasks[i].kind = "filter" /\ ev'.at = "try"
                   /\ tasks' = RemoveAt(tasks, i)
                   /\ tasks[i].req.args[1] # r.jurisdiction_id]_vars

\* ------------------------------------------------------------------ C20
\* the requests of a search, of a jurisdiction filter, of a create and of an
\* update that are in flight: sent, and their response not yet delivered
CallsInFlight ==
    {i \in 1..Len(tasks) :
        tasks[i].kind \in {"search", "filter", "create", "update"} /\ tasks[i].stage = "call"}

\* C20 (as stated): in every state in which the request of a search, of a
\* jurisdiction filter, of a create or of an update is in flight, loading is true.
C20_AsStated == CallsInFlight # {} => ui.loading

\* ------------------------------------------------------------------ C21
\* the last step applied a list response: a loadData resolved, or the response
\* of a jurisdiction filter arrived
ListResponseApplied ==
    \/ ev.at = "end" /\ ev.load = "resolved"
    \/ ev.h = "handleFilterByJurisdiction" /\ ev.at = "try"

\* the rules of the backend that the selected filter stands for
RulesSelected ==
    IF ui.selectedJurisdiction = "" THEN server.rules
    ELSE {r \in server.rules : r.jurisdiction_id = ui.selectedJurisdiction}

\* C21 (as stated): on the rules page, when no request is in flight, no failure
\* is on display and the step before applied a list response, the rules shown
\* are all rules if no jurisdiction is selected and the backend's rules of the
\* selected jurisdiction otherwise.
C21_AsStated ==
    (page = "rules" /\ tasks = <<>> /\ ui.error = NULL /\ ListResponseApplied) =>
        ui.rules = RulesSelected

\* ------------------------------------------------------------------ C22
\* the number of the user event whose list request the shown list answers
ListShownFor == IF page = "opps" THEN ui.opportunities.req ELSE 0

\* C22 (as stated): on the opportunities page the response to an earlier list
\* request never replaces the result of a later one, so that with nothing in
\* flight the list is the result of the request issued last.
C22_AsStated == [][ListShownFor' >= ListShownFor]_vars

\* ------------------------------------------------------------------ C23
\* the form is not in create mode and in edit mode at once
OneFormMode == (page = "rules" /\ ui.editingRule # {}) => ~ui.showCreateForm

\* the kinds of the requests that this step issues
KindsIssued ==
    {tasks'[k].kind : k \in {m \in 1..Len(tasks') : m > Len(tasks)}}

\* C23: showCreateForm is false whenever editingRule is set, before and after
\* every step, completions of a create or update that arrive after the user
\* changed the mode included; and a submit issues an update when editingRule is
\* set and a create when it is not.
C23_OneFormMode ==
    [][/\ OneFormMode /\ OneFormMode'
       /\ "update" \in KindsIssued => ui.editingRule # {}
       /\ "create" \in KindsIssued => (ui.editingRule = {} /\ ui.showCreateForm)
       /\ (page = "rules" /\ ops' = ops + 1 /\ Len(tasks') > Len(tasks)
             /\ tasks'[Len(tasks')].req.api \in {"complianceRulesApi.create",
                                                  "complianceRulesApi.update"}) =>
             (tasks'[Len(tasks')].kind = "update") = (ui.editingRule # {})]_vars

\* an update has completed after the user clicked 'Create Rule' while it was in
\* flight: the form is in create mode
C23_Witness ==
    /\ ev.h = "handleUpdateRule" /\ ev.at = "try"
    /\ ui.showCreateForm /\ ui.editingRule = {}

\* ------------------------------------------------------------------ C24
\* C24 (as stated): on the rules page and on the organizations page success and
\* error are never both set.
C24_AsStated ==
    (page \in {"rules", "orgs"}) => ~(ui.success # NULL /\ ui.error # NULL)

\* ------------------------------------------------------------------ C25
\* the step before set the success banner: the call of a create, update or
\* delete had succeeded
BannerJustSet ==
    /\ HasSuccessBanner /\ ev.at = "try" /\ ev.h \in MutationHandlers
    /\ ui.success # NULL

\* C25 (as stated): a success banner is not cleared by the timer of an earlier
\* mutation before its own 3 seconds have passed; in particular a banner that
\* was set in the step before, with no time passed since, is not cleared by a
\* timer.
C25_AsStated == [][(BannerJustSet /\ TimerFires) => ui'.success # NULL]_vars

\* ------------------------------------------------------------------ C26
\* the create and update handlers that have submitted and not finished: their
\* request or the reload after it is in flight
SubmitsInFlight == {i \in 1..Len(tasks) : tasks[i].kind \in {"create", "update"}}

\* C26 (as stated): on the rules page at most one create or update is in flight,
\* and loading is true from the submit until the request and its reload have
\* finished.
C26_AsStated ==
    (page = "rules") =>
        /\ Cardinality(SubmitsInFlight) <= 1
        /\ SubmitsInFlight # {} => ui.loading

\* ------------------------------------------------------------------ C27
\* C27: handleUpdateRule, called when editingRule is null, makes no call and
\* leaves the page state as it is; called when a rule is being edited, it makes
\* one call, of update, with that rule's id and a payload of exactly rule_name,
\* rule_type, rule_definition and severity, taken from the form, and no
\* jurisdiction_id.
C27_UpdateOnlyEdited ==
    (ev.h = "handleUpdateRule" /\ ev.at = "return") =>
        LET p == ev.val.args[1]
            out == ev.val.result
        IN  /\ p.editingRule = {} => (out.calls = <<>> /\ out.state = p)
            /\ p.editingRule # {} =>
                  /\ Len(out.calls) = 1
                  /\ out.calls[1].api = "complianceRulesApi.update"
                  /\ out.calls[1].args[1] \in {r.id : r \in p.editingRule}
                  /\ DOMAIN out.calls[1].args[2] =
                        {"rule_name", "rule_type", "rule_definition", "severity"}
                  /\ \A k \in DOMAIN out.calls[1].args[2] :
                        out.calls[1].args[2][k] = p.formData[k]

\* handleUpdateRule was called with no rule being edited and the form filled in
C27_Witness ==
    /\ ev.h = "handleUpdateRule" /\ ev.at = "return"
    /\ ev.val.args[1].editingRule = {} /\ ev.val.args[1].formData.rule_name # ""
    /\ ev.val.result.calls = <<>>

\* an update of a changed form has been sent for the rule being edited
C27_WitnessEdited ==
    /\ ev.h = "handleUpdateRule" /\ ev.at = "return"
    /\ ev.val.args[1].editingRule = {SeedRule}
    /\ ev.val.args[1].formData.rule_name # SeedRule.rule_name
    /\ Len(ev.val.result.calls) = 1

\* ------------------------------------------------------------------ C28
\* the call of the mutation of task i fails in this step
MutationFails(i) ==
    /\ IsMutation(tasks[i].kind) /\ tasks[i].stage = "call"
    /\ ev'.at = "catch" /\ ev'.h = HandlerName(tasks[i].kind)
    /\ tasks' = RemoveAt(tasks, i)

C29_LoadBids ==
    [][(page = "home") =>
          /\ Len(tasks) <= 1 /\ Len(tasks') <= Len(tasks)
          /\ tasks' = <<>> => ~ui'.loading
          /\ ev'.load = "resolved" => (ui'.bids = tasks[1].data /\ ~ui'.loading)
          /\ ev'.load = "rejected" =>
                /\ ui'.bids = <<>> /\ ~ui'.loading
                /\ Home_view(ui') = "No bids yet"
                /\ ui' = Home_loadBids_try(ui, <<>>)]_vars

\* the backend holds a bid, the load has failed, and the page says 'No bids yet'
C29_Witness ==
    /\ page = "home" /\ ev.h = "loadBids" /\ ev.load = "rejected"
    /\ server.bids # <<>> /\ Home_view(ui) = "No bids yet"

====
